---- MODULE Spec2Model ----
(***************************************************************************)
(* A model of app.py: the tag parser, the sqlite cache index and cache     *)
(* files, the synthesize-and-merge pipeline, the /tts, /tts-all and        *)
(* /progress handlers and the eviction pass db_cleanup, run by worker      *)
(* threads that share the cache directory, the cache index, the clock and  *)
(* the progress_state dictionary.                                          *)
(*                                                                         *)
(* Spec runs the /tts, /tts-all and /progress requests; the deletes they   *)
(* schedule on their temp files stay pending in it. SpecDelete runs the    *)
(* /download requests and the timers of schedule_delete from the state a   *)
(* returned /tts-all job leaves. SpecParse runs the parser alone on every  *)
(* text of up to MaxTextLen tokens.                                        *)
(*                                                                         *)
(* A text is a sequence of tokens: a word ("a"), white space (" "), a      *)
(* voice marker ("[voice v2]:"), a pause marker ("[pause 1]") or a         *)
(* bracketed text the regex does not match ("[x]").                        *)
(***************************************************************************)
EXTENDS Integers, Sequences, FiniteSets, TLC

\* ------------------------------------------------------------- bounds
\* Worker threads of the server that handle requests concurrently.
NumWorkers == 2
\* The clock (time.time()) takes the values 0..MaxClock.
MaxClock == 1
\* Requests the server accepts in one run of the model.
MaxRequests == 2
\* The texts given to the parser alone have at most MaxTextLen tokens.
MaxTextLen == 4

\* ------------------------------------------------- program constants
\* max_age_hours * 3600, in ticks of the model's clock: an entry is older than
\* the limit when a tick lies between its last access and now.
MaxAge == 0
\* max_total_mb * 1e6, in units of one full cache file.
MaxTotal == 1
\* The silence that replaces a segment whose synthesis or decode failed.
SubstituteMs == 500
\* The delays of schedule_delete, in seconds: its default (used by /tts and
\* /download), the one of a block's file and the one of a job's final file.
DefaultDelay == 10
BlockDelay == 5
FinalDelay == 600

Workers == 1..NumWorkers
Voices == {"v1", "v2"}

\* ------------------------------------------------------------- tokens
VoiceMarkers == {"[voice v1]:", "[voice v2]:"}
PauseMarkers == {"[pause 0]", "[pause 1]"}
IsVoiceMarker(t) == t \in VoiceMarkers
IsPauseMarker(t) == t \in PauseMarkers
IsMarker(t) == IsVoiceMarker(t) \/ IsPauseMarker(t)
\* A token that holds a '[': the character class [^\[] of group 2 stops at it.
HasBracket(t) == IsMarker(t) \/ t = "[x]"
IsSpace(t) == t = " "
MarkerVoice(t) == IF t = "[voice v1]:" THEN "v1" ELSE "v2"
MarkerPause(t) == IF t = "[pause 0]" THEN 0 ELSE 1

\* str.strip(): the text without its leading and trailing white space.
RECURSIVE LStrip(_)
LStrip(s) == IF s # <<>> /\ IsSpace(Head(s)) THEN LStrip(Tail(s)) ELSE s
RECURSIVE RStrip(_)
RStrip(s) ==
  IF s # <<>> /\ IsSpace(s[Len(s)]) THEN RStrip(SubSeq(s, 1, Len(s) - 1)) ELSE s
Strip(s) == RStrip(LStrip(s))

TextSeg(c) == [type |-> "text", content |-> c, name |-> "", duration |-> 0]
VoiceSeg(n) == [type |-> "voice", content |-> <<>>, name |-> n, duration |-> 0]
PauseSeg(d) == [type |-> "pause", content |-> <<>>, name |-> "", duration |-> d]

\* The start of the first match of the regex at or after position pos
\* (0 when there is none).
RECURSIVE NextMatch(_, _)
NextMatch(text, pos) ==
  IF pos > Len(text) THEN 0
  ELSE IF IsMarker(text[pos]) THEN pos
  ELSE NextMatch(text, pos + 1)

\* The last position of the match that starts at the marker in position i: a
\* voice marker takes the text up to the next '[' with it (\s*([^\[]*)).
RECURSIVE InlineEnd(_, _)
InlineEnd(text, j) ==
  IF j < Len(text) /\ ~HasBracket(text[j + 1]) THEN InlineEnd(text, j + 1) ELSE j
MatchEnd(text, i) == IF IsVoiceMarker(text[i]) THEN InlineEnd(text, i) ELSE i

TextIfAny(s) == IF Strip(s) # <<>> THEN <<TextSeg(Strip(s))>> ELSE <<>>

\* The loop over regex.finditer(text), from the end `last` of the match before.
RECURSIVE ParseFrom(_, _)
ParseFrom(text, last) ==
  LET i == NextMatch(text, last + 1) IN
  IF i = 0 THEN TextIfAny(SubSeq(text, last + 1, Len(text)))
  ELSE
    LET e == MatchEnd(text, i)
        before == TextIfAny(SubSeq(text, last + 1, i - 1))
        here == IF IsVoiceMarker(text[i])
                THEN <<VoiceSeg(MarkerVoice(text[i]))>>
                     \o TextIfAny(SubSeq(text, i + 1, e))
                ELSE <<PauseSeg(MarkerPause(text[i]))>>
    IN before \o here \o ParseFrom(text, e)

parse_tags_into_segments(text, default_voice) == ParseFrom(text, 0)

\* cache_key: the digest of voice|text, taken to be free of collisions.
cache_key(text, voice) == <<voice, text>>

\* ------------------------------------------------------------- inputs
Blk(t, v) == [text |-> t, voice |-> v]
Marked == <<"[voice v2]:", " ", "a", "[pause 1]">>
\* The JSON bodies posted to /tts.
SingleInputs == {Blk(<<" ">>, "v1"), Blk(<<"a">>, "v1"), Blk(Marked, "v1")}
\* The block lists posted to /tts-all.
BlockInputs ==
  { <<>>,
    <<Blk(<<"a">>, "v2")>>,
    <<Blk(Marked, "v1"), Blk(<<"a">>, "v1")>>,
    <<Blk(<<" ">>, "v1"), Blk(<<"a">>, "v2")>> }
JobIds == 0..MaxClock

\* -------------------------------------------------------------- state
VARIABLES
  clock,           \* time.time()
  files,           \* CACHE_DIR: cache key -> "partial" | "full", for the files that exist
  index,           \* the cache table: hash -> [size, mtime]
  progress_state,  \* job_id -> [done, total, status]
  th,              \* the worker threads: position and local variables of each
  nreq,            \* requests accepted so far
  synthesized,     \* history: keys the provider delivered whose file was not removed since
  tmpfiles,        \* the files of tempfile.mktemp that exist in the temp directory
  timers           \* threading.Timer: [path, delay] -> deletes scheduled and not run yet

vars == <<clock, files, index, progress_state, th, nreq, synthesized, tmpfiles, timers>>

Status(tag, a, b) == [tag |-> tag, a |-> a, b |-> b]
Rec(d, t, s) == [done |-> d, total |-> t, status |-> s]
NoRec == Rec(0, 0, Status("", 0, 0))

\* A worker that handles no request.
Idle ==
  [ pc |-> "idle", kind |-> "", blocks |-> <<>>, job_id |-> -1, i |-> 0,
    segs |-> <<>>, sidx |-> 0, done |-> 0, total |-> 0, current_voice |-> "",
    key |-> <<>>, merged |-> <<>>, log |-> <<>>,
    size |-> 0, mtime |-> 0, rows |-> <<>>, ridx |-> 0, now |-> 0, total_size |-> 0,
    found |-> FALSE, live |-> FALSE, info |-> NoRec, pct |-> 0,
    path |-> <<>>, hist |-> {}, solo |-> -1, kept |-> {},
    resp |-> [code |-> 0, progress |-> 0, status |-> Status("", 0, 0)] ]

Init ==
  /\ clock = 0
  /\ files = <<>>
  /\ index = <<>>
  /\ progress_state = <<>>
  /\ th = [p \in Workers |-> Idle]
  /\ nreq = 0
  /\ synthesized = {}
  /\ tmpfiles = {}
  /\ timers = <<>>

Put(f, k, v) == [x \in DOMAIN f \cup {k} |-> IF x = k THEN v ELSE f[x]]
Del(f, k) == [x \in DOMAIN f \ {k} |-> f[x]]

\* tempfile.mktemp(suffix=".mp3") called by thread p: a name that no file of the
\* temp directory and no scheduled delete has.
mktemp(p) ==
  <<p, 1 + Cardinality({f \in tmpfiles \cup {t.path : t \in DOMAIN timers} : f[1] = p})>>

\* schedule_delete (82-91): threading.Timer(delay, _delete).start(); the value of
\* timers with one more delete of path.
schedule_delete(path, delay) ==
  LET t == [path |-> path, delay |-> delay] IN
  Put(timers, t, IF t \in DOMAIN timers THEN timers[t] + 1 ELSE 1)

\* AudioSegment values: a sequence of contributions.
Silence(ms) == [kind |-> "silence", ms |-> ms, key |-> <<>>]
Audio(k) == [kind |-> "audio", ms |-> 0, key |-> k]

Response(code) == [code |-> code, progress |-> 0, status |-> Status("", 0, 0)]

\* One thread's step that leaves progress_state as it is.
Step(p, r) == th' = [th EXCEPT ![p] = r]

\* A reader of /progress holds a reference to the dictionary it got: an update in
\* place (dict.update) shows through the reference, a new dictionary bound to the
\* job_id does not.
\* hist is history: the values the record of the job_id held since the get().
Seen(q, j, rec, inplace) ==
  IF th[q].pc \in {"pct", "status"} /\ th[q].job_id = j /\ th[q].kind = "progress"
  THEN [th[q] EXCEPT !.hist = @ \cup {rec},
                     !.info = IF th[q].live /\ inplace THEN rec ELSE @,
                     !.live = @ /\ inplace]
  ELSE th[q]

\* progress_state[j].update(done=d, status=s) by thread p, which moves on to r.
UpdateInPlace(p, r, j, d, s) ==
  LET rec == [progress_state[j] EXCEPT !.done = d, !.status = s] IN
  /\ progress_state' = [progress_state EXCEPT ![j] = rec]
  /\ th' = [q \in Workers |-> IF q = p THEN r ELSE Seen(q, j, rec, TRUE)]

\* progress_state[j] = {...} by thread p, which moves on to r.
Assign(p, r, j, rec) ==
  /\ progress_state' = Put(progress_state, j, rec)
  /\ th' = [q \in Workers |-> IF q = p THEN r ELSE Seen(q, j, rec, FALSE)]

At(p, loc) == th[p].pc = loc
HasJob(p) == th[p].job_id # -1

\* ------------------------------------------------------------- clock
Tick ==
  /\ clock < MaxClock
  /\ clock' = clock + 1
  /\ UNCHANGED <<files, index, progress_state, th, nreq, synthesized, tmpfiles, timers>>

\* ------------------------------------------------ the pipeline (143-197)
\* Lines 144-149: the locals of synthesize_segments_to_mp3.
Begin(r, segs, default_voice) ==
  [r EXCEPT !.segs = segs, !.merged = <<>>, !.log = <<>>,
            !.current_voice = default_voice, !.total = Len(segs),
            !.done = 0, !.sidx = 1, !.pc = "loop"]

\* The end of one iteration of the loop: the contribution c (if any) is added to
\* merged, done advances and the loop goes to the next segment.
Advance(r, c, what) ==
  [r EXCEPT !.merged = @ \o c, !.log = Append(@, what), !.done = @ + 1,
            !.sidx = @ + 1, !.pc = "loop"]

\* A pipeline that drops a failed segment instead of replacing it.
NoSubstituteAudio == <<>>

\* What the except branches of lines 178-182 and 187-189 add to merged.
SubstituteAudio == <<Silence(SubstituteMs)>>

\* Line 160: the silence of a pause segment.
PauseAudio(seg) == <<Silence(seg.duration * 1000)>>

\* A voice segment that does not change the voice.
LoopBodyNoSwitch(r) ==
  LET seg == r.segs[r.sidx] IN
  IF seg.type = "voice" THEN Advance(r, <<>>, "voice")
  ELSE IF seg.type = "pause" THEN Advance(r, PauseAudio(seg), "pause")
  ELSE IF Strip(seg.content) = <<>> THEN Advance(r, <<>>, "empty")
  ELSE [r EXCEPT !.key = cache_key(Strip(seg.content), r.current_voice),
                 !.pc = "check"]

\* Lines 151-170: the head of the loop, up to the cache key of a text segment.
LoopBody(r) ==
  LET seg == r.segs[r.sidx] IN
  IF seg.type = "voice"
  THEN Advance([r EXCEPT !.current_voice = seg.name], <<>>, "voice")
  ELSE IF seg.type = "pause"
  THEN Advance(r, PauseAudio(seg), "pause")
  ELSE IF Strip(seg.content) = <<>>
  THEN Advance(r, <<>>, "empty")
  ELSE [r EXCEPT !.key = cache_key(Strip(seg.content), r.current_voice),
                 !.pc = "check"]

\* Lines 193-197: merged is exported to a file of its own and the function
\* returns to its caller, where its locals are gone. In /tts the caller goes on
\* with send_file and schedule_delete(out_path) (lines 216-218).
Exported(r) ==
  [r EXCEPT !.pc = IF r.kind = "single" THEN "cleanup" ELSE "block_decode",
            !.segs = <<>>, !.sidx = 0, !.done = 0, !.total = 0, !.key = <<>>,
            !.current_voice = "", !.merged = <<>>, !.log = <<>>]

Loop(p) ==
  /\ At(p, "loop")
  /\ UNCHANGED <<clock, files, index, nreq, synthesized>>
  /\ IF th[p].sidx > Len(th[p].segs)
     THEN LET out_path == mktemp(p)
              r == [Exported(th[p]) EXCEPT !.path = out_path]
          IN /\ tmpfiles' = tmpfiles \cup {out_path}
             /\ IF HasJob(p)
                THEN /\ Assign(p, r, th[p].job_id,
                               Rec(th[p].total, th[p].total, Status("Complete", 0, 0)))
                     /\ timers' = timers
                ELSE /\ Step(p, r)
                     /\ timers' = schedule_delete(out_path, DefaultDelay)
                     /\ UNCHANGED progress_state
     ELSE /\ UNCHANGED <<tmpfiles, timers>>
          /\ IF HasJob(p)
             THEN UpdateInPlace(p, LoopBody(th[p]), th[p].job_id, th[p].done,
                                Status("Segment", th[p].done + 1, th[p].total))
             ELSE Step(p, LoopBody(th[p])) /\ UNCHANGED progress_state

\* A lookup that asks the index too.
CacheHitIndexed(k) == k \in DOMAIN files /\ k \in DOMAIN index

\* Line 172: os.path.exists(cached_path).
CacheHit(k) == k \in DOMAIN files

Check(p) ==
  /\ At(p, "check")
  /\ Step(p, [th[p] EXCEPT !.pc = IF CacheHit(th[p].key) THEN "touch" ELSE "save"])
  /\ UNCHANGED <<clock, files, index, progress_state, nreq, synthesized, tmpfiles, timers>>

\* An exception that leaves synthesize_segments_to_mp3 and the handler: the
\* request ends with the server's error response.
Aborted(r) == [r EXCEPT !.pc = "return", !.resp = Response(500)]

\* db_touch (46-51): UPDATE cache SET mtime=now WHERE hash=key.
Touched(k) ==
  IF k \in DOMAIN index THEN [index EXCEPT ![k].mtime = clock] ELSE index

\* Line 173: db_touch is called outside the try blocks, so an sqlite3 error (a
\* locked database, a missing table) leaves the function.
Touch(p) ==
  /\ At(p, "touch")
  /\ \E ok \in BOOLEAN :
       IF ok
       THEN /\ index' = Touched(th[p].key)
            /\ Step(p, [th[p] EXCEPT !.pc = "decode"])
       ELSE /\ index' = index
            /\ Step(p, Aborted(th[p]))
  /\ UNCHANGED <<clock, files, progress_state, nreq, synthesized, tmpfiles, timers>>

\* Line 176, edge_tts_save (113-115): the provider's save(path) writes to the
\* cache path itself; it may create the file when the call begins or when the
\* audio has arrived.
SaveBegin(p) ==
  /\ At(p, "save")
  /\ \E opened \in BOOLEAN :
       files' = IF opened THEN Put(files, th[p].key, "partial") ELSE files
  /\ Step(p, [th[p] EXCEPT !.pc = "saving"])
  /\ UNCHANGED <<clock, index, progress_state, nreq, synthesized, tmpfiles, timers>>

SaveEnd(p) ==
  /\ At(p, "saving")
  /\ \E ok \in BOOLEAN :
       IF ok
       THEN /\ files' = Put(files, th[p].key, "full")
            /\ synthesized' = synthesized \cup {th[p].key}
            /\ Step(p, [th[p] EXCEPT !.pc = "add"])
       ELSE /\ UNCHANGED <<files, synthesized>>
            /\ Step(p, Advance(th[p], SubstituteAudio, "synth_fail"))
  /\ UNCHANGED <<clock, index, progress_state, nreq, tmpfiles, timers>>

FileSize(content) == IF content = "full" THEN 1 ELSE 0

\* Line 177, db_add_cache (36-44): the arguments of the INSERT, os.path.getsize
\* and time.time(), are evaluated before the statement runs.
AddSize(p) ==
  /\ At(p, "add")
  /\ IF th[p].key \in DOMAIN files
     THEN Step(p, [th[p] EXCEPT !.size = FileSize(files[th[p].key]),
                                !.mtime = clock, !.pc = "insert"])
     ELSE Step(p, Advance(th[p], SubstituteAudio, "index_fail"))
  /\ UNCHANGED <<clock, files, index, progress_state, nreq, synthesized, tmpfiles, timers>>

\* What lines 178-182 do when db_add_cache raised: the file stays.
InsertFailed(p) ==
  /\ UNCHANGED <<files, index, synthesized>>
  /\ Step(p, Advance(th[p], SubstituteAudio, "index_fail"))

Insert(p) ==
  /\ At(p, "insert")
  /\ \E ok \in BOOLEAN :
       IF ok
       THEN /\ index' = Put(index, th[p].key,
                            [size |-> th[p].size, mtime |-> th[p].mtime])
            /\ UNCHANGED <<files, synthesized>>
            /\ Step(p, [th[p] EXCEPT !.pc = "decode"])
       ELSE InsertFailed(p)
  /\ UNCHANGED <<clock, progress_state, nreq, tmpfiles, timers>>

\* Lines 184-191: AudioSegment.from_file(cached_path) and its except branch.
Decode(p) ==
  /\ At(p, "decode")
  /\ \E ok \in BOOLEAN :
       /\ ok => th[p].key \in DOMAIN files
       /\ Step(p, IF ok THEN Advance(th[p], <<Audio(th[p].key)>>, "ok")
                  ELSE Advance(th[p], SubstituteAudio, "decode_fail"))
  /\ UNCHANGED <<clock, files, index, progress_state, nreq, synthesized, tmpfiles, timers>>

\* ---------------------------------------------------- /tts (206-220)
\* A rejection that still runs the eviction pass.
RejectedAfterCleanup(r) == [r EXCEPT !.pc = "cleanup", !.resp = Response(400)]

\* Lines 211-212 and 226-227: the handler returns the error at once.
Rejected(r) == [r EXCEPT !.pc = "return", !.resp = Response(400)]

tts_single(p) ==
  /\ At(p, "idle")
  /\ nreq < MaxRequests
  /\ nreq' = nreq + 1
  /\ \E inp \in SingleInputs :
       IF Strip(inp.text) = <<>>
       THEN Step(p, Rejected([th[p] EXCEPT !.kind = "single"]))
       ELSE Step(p, Begin([th[p] EXCEPT !.kind = "single", !.blocks = <<inp>>],
                          parse_tags_into_segments(inp.text, inp.voice), inp.voice))
  /\ UNCHANGED <<clock, files, index, progress_state, synthesized, tmpfiles, timers>>

\* ------------------------------------------------ /tts-all (222-248)
\* Line 229: str(int(time.time() * 1000)).
NewJobId == clock

tts_all(p) ==
  /\ At(p, "idle")
  /\ nreq < MaxRequests
  /\ nreq' = nreq + 1
  /\ \E blocks \in BlockInputs :
       IF blocks = <<>>
       THEN /\ Step(p, Rejected([th[p] EXCEPT !.kind = "all"]))
            /\ UNCHANGED progress_state
       ELSE Assign(p, [th[p] EXCEPT !.kind = "all", !.blocks = blocks,
                                    !.job_id = NewJobId, !.i = 0, !.pc = "block"],
                   NewJobId, Rec(0, Len(blocks), Status("Queued", 0, 0)))
  /\ UNCHANGED <<clock, files, index, synthesized, tmpfiles, timers>>

\* Lines 233-237, and 243-245 when the blocks are exhausted.
Block(p) ==
  /\ At(p, "block")
  /\ LET n == Len(th[p].blocks) IN
     IF th[p].i < n
     THEN LET b == th[p].blocks[th[p].i + 1] IN
          /\ UpdateInPlace(p, [th[p] EXCEPT
                                 !.segs = parse_tags_into_segments(b.text, b.voice),
                                 !.pc = "synth"],
                           th[p].job_id, th[p].i, Status("Block", th[p].i + 1, n))
          /\ UNCHANGED tmpfiles
     ELSE LET final_path == mktemp(p) IN
          /\ tmpfiles' = tmpfiles \cup {final_path}
          /\ Assign(p, [th[p] EXCEPT !.pc = "cleanup", !.path = final_path],
                    th[p].job_id, Rec(n, n, Status("Complete", 0, 0)))
  /\ UNCHANGED <<clock, files, index, nreq, synthesized, timers>>

\* Line 238 entering synthesize_segments_to_mp3 with the job_id: lines 144-149.
Synth(p) ==
  /\ At(p, "synth")
  /\ LET b == th[p].blocks[th[p].i + 1] IN
     Assign(p, Begin(th[p], th[p].segs, b.voice), th[p].job_id,
            Rec(0, Len(th[p].segs), Status("Starting", 0, 0)))
  /\ UNCHANGED <<clock, files, index, nreq, synthesized, tmpfiles, timers>>

\* Lines 239-241: the block's file is decoded outside any try block.
BlockDecode(p) ==
  /\ At(p, "block_decode")
  /\ \E ok \in BOOLEAN :
       IF ok
       THEN /\ Step(p, [th[p] EXCEPT !.i = @ + 1, !.pc = "block"])
            /\ timers' = schedule_delete(th[p].path, BlockDelay)
       ELSE /\ Step(p, Aborted(th[p]))
            /\ timers' = timers
  /\ UNCHANGED <<clock, files, index, progress_state, nreq, synthesized, tmpfiles>>

\* ------------------------------------------------ db_cleanup (53-77)
Row(k) == [hash |-> k, size |-> index[k].size, mtime |-> index[k].mtime]

\* Lines 57-58 and 63: the rows of the table, oldest first. Rows of one mtime
\* come in the order the SELECT gave them, which SQL leaves open.
SortedRows ==
  LET ks == DOMAIN index
      n == Cardinality(ks)
  IN { [i \in 1..n |-> Row(f[i])] :
         f \in { g \in [1..n -> ks] :
                   /\ \A a, b \in 1..n : a # b => g[a] # g[b]
                   /\ \A a, b \in 1..n : a < b => index[g[a]].mtime <= index[g[b]].mtime } }

RECURSIVE SumSizes(_)
SumSizes(rows) == IF rows = <<>> THEN 0 ELSE Head(rows).size + SumSizes(Tail(rows))

\* History of a pass: the number of requests accepted when it began if no other
\* thread was handling a request then, -1 otherwise. No request has run beside
\* the pass as long as nreq has this value.
Alone(p) == IF \A q \in Workers \ {p} : At(q, "idle") THEN nreq ELSE -1

\* Lines 55-63.
CleanupSelect(p) ==
  /\ At(p, "cleanup")
  /\ \E rows \in SortedRows :
       Step(p, [th[p] EXCEPT !.rows = rows, !.ridx = 1, !.now = clock,
                             !.total_size = SumSizes(rows), !.solo = Alone(p),
                             !.pc = "cleanup_row"])
  /\ UNCHANGED <<clock, files, index, progress_state, nreq, synthesized, tmpfiles, timers>>

\* A policy that looks at the age alone.
ShouldEvictOld(row, now, total_size) == (now - row.mtime) > MaxAge

\* Line 66.
ShouldEvict(row, now, total_size) ==
  (now - row.mtime) > MaxAge \/ total_size > MaxTotal

\* Lines 65-73 for one row, and the return of the handler after the last row
\* (line 220, or lines 247-248 with schedule_delete(final_path, delay=600)).
\* kept is history: the keys whose os.remove raised in this pass.
CleanupRow(p) ==
  /\ At(p, "cleanup_row")
  /\ IF th[p].ridx > Len(th[p].rows)
     THEN /\ Step(p, [th[p] EXCEPT !.pc = "return", !.resp = Response(200)])
          /\ timers' = IF th[p].kind = "all"
                       THEN schedule_delete(th[p].path, FinalDelay)
                       ELSE timers
          /\ UNCHANGED <<files, synthesized>>
     ELSE LET row == th[p].rows[th[p].ridx] IN
          /\ timers' = timers
          /\ IF ShouldEvict(row, th[p].now, th[p].total_size)
             THEN IF row.hash \in DOMAIN files
                  THEN \E ok \in BOOLEAN :
                         IF ok
                         THEN /\ files' = Del(files, row.hash)
                              /\ synthesized' = synthesized \ {row.hash}
                              /\ Step(p, [th[p] EXCEPT !.total_size = @ - row.size,
                                                       !.pc = "cleanup_delete"])
                         ELSE /\ UNCHANGED <<files, synthesized>>
                              /\ Step(p, [th[p] EXCEPT !.kept = @ \cup {row.hash},
                                                       !.pc = "cleanup_delete"])
                  ELSE /\ UNCHANGED <<files, synthesized>>
                       /\ Step(p, [th[p] EXCEPT !.pc = "cleanup_delete"])
             ELSE /\ UNCHANGED <<files, synthesized>>
                  /\ Step(p, [th[p] EXCEPT !.ridx = @ + 1])
  /\ UNCHANGED <<clock, index, progress_state, nreq, tmpfiles>>

\* Lines 74-77: DELETE FROM cache WHERE hash=?.
CleanupDelete(p) ==
  /\ At(p, "cleanup_delete")
  /\ index' = Del(index, th[p].rows[th[p].ridx].hash)
  /\ Step(p, [th[p] EXCEPT !.ridx = @ + 1, !.pc = "cleanup_row"])
  /\ UNCHANGED <<clock, files, progress_state, nreq, synthesized, tmpfiles, timers>>

\* ----------------------------------------------- /progress (259-265)
\* A test that takes a record without progress for no record.
NotInfoZero(found, info) == ~found \/ (info.done = 0 /\ info.total = 0)

\* Line 262, "if not info": get() gave None; a dictionary with its three keys is
\* true whatever their values.
NotInfo(found, info) == ~found

Max(a, b) == IF a >= b THEN a ELSE b

\* round(): to the nearest, a tie to the even one.
Round(num, den) ==
  LET q == num \div den
      r == num % den
  IN IF 2 * r < den THEN q
     ELSE IF 2 * r > den THEN q + 1
     ELSE IF q % 2 = 0 THEN q ELSE q + 1

\* Line 264, in tenths of a percent.
Pct(done, total) == Round(1000 * done, Max(1, total))

\* Lines 261-263.
ProgressGet(p) ==
  /\ At(p, "idle")
  /\ nreq < MaxRequests
  /\ nreq' = nreq + 1
  /\ \E j \in JobIds :
       LET found == j \in DOMAIN progress_state
           info == IF found THEN progress_state[j] ELSE NoRec
           r == [th[p] EXCEPT !.kind = "progress", !.job_id = j,
                              !.found = found, !.info = info]
       IN IF NotInfo(found, info)
          THEN Step(p, [r EXCEPT !.pc = "return", !.resp = Response(404)])
          ELSE Step(p, [r EXCEPT !.pc = "pct", !.live = TRUE, !.hist = {info}])
  /\ UNCHANGED <<clock, files, index, progress_state, synthesized, tmpfiles, timers>>

\* Line 264.
ProgressPct(p) ==
  /\ At(p, "pct")
  /\ Step(p, [th[p] EXCEPT !.pct = Pct(th[p].info.done, th[p].info.total),
                           !.pc = "status"])
  /\ UNCHANGED <<clock, files, index, progress_state, nreq, synthesized, tmpfiles, timers>>

\* Line 265.
ProgressStatus(p) ==
  /\ At(p, "status")
  /\ Step(p, [th[p] EXCEPT !.pc = "return", !.live = FALSE,
                           !.resp = [code |-> 200, progress |-> th[p].pct,
                                     status |-> th[p].info.status]])
  /\ UNCHANGED <<clock, files, index, progress_state, nreq, synthesized, tmpfiles, timers>>

\* The response is sent and the worker is free again.
Return(p) ==
  /\ At(p, "return")
  /\ Step(p, Idle)
  /\ UNCHANGED <<clock, files, index, progress_state, nreq, synthesized, tmpfiles, timers>>

\* ------------------------------------------------------ specification
Next ==
  \/ Tick
  \/ \E p \in Workers : tts_single(p)
  \/ \E p \in Workers : tts_all(p)
  \/ \E p \in Workers : Block(p)
  \/ \E p \in Workers : Synth(p)
  \/ \E p \in Workers : Loop(p)
  \/ \E p \in Workers : Check(p)
  \/ \E p \in Workers : Touch(p)
  \/ \E p \in Workers : SaveBegin(p)
  \/ \E p \in Workers : SaveEnd(p)
  \/ \E p \in Workers : AddSize(p)
  \/ \E p \in Workers : Insert(p)
  \/ \E p \in Workers : Decode(p)
  \/ \E p \in Workers : BlockDecode(p)
  \/ \E p \in Workers : CleanupSelect(p)
  \/ \E p \in Workers : CleanupRow(p)
  \/ \E p \in Workers : CleanupDelete(p)
  \/ \E p \in Workers : ProgressGet(p)
  \/ \E p \in Workers : ProgressPct(p)
  \/ \E p \in Workers : ProgressStatus(p)
  \/ \E p \in Workers : Return(p)

Spec == Init /\ [][Next]_vars

\* --------------------------------- /download (250-257) and the timers
\* The run of the model below starts when a /tts-all job of thread 1 for the one
\* block "a" (voice v2) has returned without a failure: its cache entry, its
\* record, the block's file with its delete after 5 s and the final file with its
\* delete after 600 s are there. nreq counts the requests from then on.
JobKey == cache_key(<<"a">>, "v2")
BlockFile == <<1, 1>>
FinalFile == <<1, 2>>
JobReturned ==
  /\ clock = 0
  /\ files = Put(<<>>, JobKey, "full")
  /\ index = Put(<<>>, JobKey, [size |-> 1, mtime |-> 0])
  /\ progress_state = Put(<<>>, 0, Rec(1, 1, Status("Complete", 0, 0)))
  /\ th = [p \in Workers |-> Idle]
  /\ synthesized = {JobKey}
  /\ tmpfiles = {BlockFile, FinalFile}
  /\ timers = Put(Put(<<>>, [path |-> BlockFile, delay |-> BlockDelay], 1),
                  [path |-> FinalFile, delay |-> FinalDelay], 1)

InitDelete == JobReturned /\ nreq = 0

\* The names asked of /download: the job's final file, its block's file (any
\* file of the temp directory can be asked) and a name no file has.
DownloadNames == {FinalFile, BlockFile, <<0, 0>>}

\* Lines 252-254.
download(p) ==
  /\ At(p, "idle")
  /\ nreq < MaxRequests
  /\ nreq' = nreq + 1
  /\ \E fname \in DownloadNames :
       LET r == [th[p] EXCEPT !.kind = "download", !.path = fname] IN
       IF fname \notin tmpfiles
       THEN Step(p, [r EXCEPT !.pc = "return", !.resp = Response(404)])
       ELSE Step(p, [r EXCEPT !.pc = "send_file"])
  /\ UNCHANGED <<clock, files, index, progress_state, synthesized, tmpfiles, timers>>

\* Lines 255-257: send_file opens the file (and raises when it is gone), the
\* delete is scheduled and the handler returns the response, which the server
\* then sends from the open file.
SendFile(p) ==
  /\ At(p, "send_file")
  /\ IF th[p].path \in tmpfiles
     THEN /\ timers' = schedule_delete(th[p].path, DefaultDelay)
          /\ Step(p, [th[p] EXCEPT !.pc = "serving", !.resp = Response(200)])
     ELSE /\ timers' = timers
          /\ Step(p, Aborted(th[p]))
  /\ UNCHANGED <<clock, files, index, progress_state, nreq, synthesized, tmpfiles>>

\* The last byte of the file has been sent.
Served(p) ==
  /\ At(p, "serving")
  /\ Step(p, [th[p] EXCEPT !.pc = "return"])
  /\ UNCHANGED <<clock, files, index, progress_state, nreq, synthesized, tmpfiles, timers>>

\* Lines 84-90: the timer thread of one scheduled delete runs. The delay is a
\* lower bound, and no step of a handler or of the server has an upper bound, so
\* the delete may come at any point of the steps of the others. os.remove may
\* raise (the exception is printed).
_delete(t) ==
  /\ timers' = IF timers[t] = 1 THEN Del(timers, t) ELSE [timers EXCEPT ![t] = @ - 1]
  /\ IF t.path \in tmpfiles
     THEN \E ok \in BOOLEAN : tmpfiles' = IF ok THEN tmpfiles \ {t.path} ELSE tmpfiles
     ELSE tmpfiles' = tmpfiles
  /\ UNCHANGED <<clock, files, index, progress_state, th, nreq, synthesized>>

NextDelete ==
  \/ \E p \in Workers : download(p)
  \/ \E p \in Workers : SendFile(p)
  \/ \E p \in Workers : Served(p)
  \/ \E p \in Workers : Return(p)
  \/ \E t \in DOMAIN timers : _delete(t)

SpecDelete == InitDelete /\ [][NextDelete]_vars

\* ------------------------------------------- the parser alone (117-141)
Tokens == VoiceMarkers \cup PauseMarkers \cup {"a", " ", "[x]"}
Texts == UNION {[1..n -> Tokens] : n \in 0..MaxTextLen}

\* Thread 1 is about to call parse_tags_into_segments on some text.
InitParse ==
  /\ clock = 0
  /\ files = <<>>
  /\ index = <<>>
  /\ progress_state = <<>>
  /\ nreq = 0
  /\ synthesized = {}
  /\ tmpfiles = {}
  /\ timers = <<>>
  /\ \E text \in Texts :
       th = [p \in Workers |->
               IF p = 1
               THEN [Idle EXCEPT !.kind = "parse", !.pc = "parse",
                                 !.blocks = <<Blk(text, "v1")>>]
               ELSE Idle]

\* Lines 214 and 236: segs = parse_tags_into_segments(text, voice).
Parse(p) ==
  /\ At(p, "parse")
  /\ LET b == th[p].blocks[1] IN
     Step(p, [th[p] EXCEPT !.segs = parse_tags_into_segments(b.text, b.voice),
                           !.pc = "parsed"])
  /\ UNCHANGED <<clock, files, index, progress_state, nreq, synthesized, tmpfiles, timers>>

NextParse == \E p \in Workers : Parse(p)

SpecParse == InitParse /\ [][NextParse]_vars

\* -------------------------------------------------------------- claims
InPipeline(p) ==
  th[p].pc \in {"loop", "check", "touch", "save", "saving", "add", "insert", "decode"}

\* A /tts-all job that was accepted and has not returned yet.
ActiveJob(p) == th[p].kind = "all" /\ HasJob(p) /\ ~At(p, "return")

\* No other running job holds the job_id of p.
OwnId(p) ==
  \A q \in Workers \ {p} : ~(ActiveJob(q) /\ th[q].job_id = th[p].job_id)

\* C1: over the life of a multi-block job whose job_id no other job uses, the
\* done of its progress record never decreases, and once the record holds
\* done = number of blocks with status "Complete" it does not change again.
C1_ProgressMonotone ==
  [][\A p \in Workers :
       (ActiveJob(p) /\ ActiveJob(p)' /\ OwnId(p) /\ OwnId(p)') =>
         LET j == th[p].job_id
             n == Len(th[p].blocks)
         IN /\ progress_state'[j].done >= progress_state[j].done
            /\ (progress_state[j].status.tag = "Complete"
                  /\ progress_state[j].done = n)
               => progress_state'[j] = progress_state[j]]_vars

\* C2: once the provider has delivered the audio of a key and its file was not
\* removed since, every run that looks the key up takes the cache-hit path: it
\* does not go on to call the provider.
C2_CacheIdempotence ==
  [][\A p \in Workers :
       (At(p, "check") /\ th[p].key \in synthesized) => th'[p].pc # "save"]_vars

\* C2's case: a later request, the only one running, has taken the hit path for a
\* key that an earlier request got from the provider and indexed.
C2_Witness ==
  \E p \in Workers :
    /\ At(p, "touch")
    /\ th[p].key \in synthesized
    /\ th[p].key \in DOMAIN index
    /\ nreq = 2
    /\ \A q \in Workers \ {p} : At(q, "idle")

\* The voice in force at segment n of segs: the name of the last voice segment
\* before it, or the default voice.
RECURSIVE VoiceAt(_, _, _)
VoiceAt(segs, n, default_voice) ==
  IF n <= 1 THEN default_voice
  ELSE IF segs[n - 1].type = "voice" THEN segs[n - 1].name
  ELSE VoiceAt(segs, n - 1, default_voice)

\* What segment n must have added to merged, given what happened to it.
Contribution(segs, n, what, default_voice) ==
  LET seg == segs[n] IN
  IF seg.type = "voice" THEN <<>>
  ELSE IF seg.type = "pause" THEN <<Silence(seg.duration * 1000)>>
  ELSE IF what = "ok"
  THEN <<Audio(<<VoiceAt(segs, n, default_voice), Strip(seg.content)>>)>>
  ELSE <<Silence(500)>>

RECURSIVE Expected(_, _, _, _)
Expected(segs, log, n, default_voice) ==
  IF n = 0 THEN <<>>
  ELSE Expected(segs, log, n - 1, default_voice)
         \o Contribution(segs, n, log[n], default_voice)

\* The outcome recorded for a segment fits its type.
Fits(seg, what) ==
  IF seg.type = "voice" THEN what = "voice"
  ELSE IF seg.type = "pause" THEN what = "pause"
  ELSE what \in {"ok", "synth_fail", "index_fail", "decode_fail"}

\* C3: at every point of a pipeline run, merged holds, in segment order, one
\* contribution for each text segment handled so far (its decoded audio, or 500
\* ms of silence when its synthesis, its index insert or its decode failed), the
\* silence of each pause segment, and nothing for a voice segment.
C3_OneContributionPerSegment ==
  \A p \in Workers :
    InPipeline(p) =>
      LET r == th[p]
          dv == r.blocks[r.i + 1].voice
      IN /\ Len(r.log) = r.sidx - 1
         /\ \A n \in 1..Len(r.log) : Fits(r.segs[n], r.log[n])
         /\ r.merged = Expected(r.segs, r.log, Len(r.log), dv)

\* C3's case: a run has handled all three segments of the marked text, one of
\* them a text segment that failed.
C3_Witness ==
  \E p \in Workers :
    /\ At(p, "loop")
    /\ Len(th[p].log) = 3
    /\ th[p].sidx > Len(th[p].segs)
    /\ \E n \in 1..3 : th[p].log[n] \in {"synth_fail", "decode_fail"}

\* C4: a handler that accepted its request ends with a success response, after
\* all its blocks; for a job, the progress record is then "Complete".
C4_NoAbort ==
  \A p \in Workers :
    (At(p, "return") /\ th[p].kind \in {"single", "all"} /\ th[p].resp.code # 400) =>
      /\ th[p].resp.code = 200
      /\ th[p].kind = "all" =>
           /\ th[p].i = Len(th[p].blocks)
           /\ progress_state[th[p].job_id].status.tag = "Complete"

\* C5: every row of the cache index has its cache file.
C5_IndexedHasFile == \A k \in DOMAIN index : k \in DOMAIN files

Quiescent == \A p \in Workers : At(p, "idle")

\* C6: a failed index insert leaves no cache file without a row for its key, and
\* when no request is running every cache file has a row.
C6_RollbackOnFailedInsert ==
  /\ [][\A p \in Workers :
          (At(p, "insert") /\ th'[p].pc = "loop") =>
            (th[p].key \notin DOMAIN files' \/ th[p].key \in DOMAIN index')]_vars
  /\ [](Quiescent => \A k \in DOMAIN files : k \in DOMAIN index)

\* Thread q is writing the cache entry of key k: its provider call has begun and
\* its row is not inserted yet.
Writing(q, k) == th[q].pc \in {"saving", "add", "insert"} /\ th[q].key = k

\* C7: no run takes the cache-hit path for a key while another run's write of
\* that key is unfinished (the file partial, or not indexed yet).
C7_NoHitOnUnfinishedWrite ==
  [][\A p \in Workers :
       (At(p, "check") /\ th'[p].pc = "touch") =>
         LET k == th[p].key IN
         ~ \E q \in Workers \ {p} :
             Writing(q, k) /\ (files[k] = "partial" \/ k \notin DOMAIN index)]_vars

RECURSIVE SumOver(_)
SumOver(ks) ==
  IF ks = {} THEN 0
  ELSE LET k == CHOOSE x \in ks : TRUE IN index[k].size + SumOver(ks \ {k})

\* The total size of the entries that are indexed now.
IndexedTotal == SumOver(DOMAIN index)

\* C8: when an eviction pass decides to remove an entry that is still indexed
\* with the last access the pass read, the entry is older than MaxAge (at the
\* pass's now) or the entries indexed at that moment are larger than MaxTotal
\* together.
C8_EvictOnlyOldOrOversize ==
  [][\A p \in Workers :
       (At(p, "cleanup_row") /\ th'[p].pc = "cleanup_delete") =>
         LET row == th[p].rows[th[p].ridx]
             k == row.hash
         IN (k \in DOMAIN index /\ index[k].mtime = row.mtime) =>
              \/ th[p].now - row.mtime > MaxAge
              \/ IndexedTotal > MaxTotal]_vars

\* C9: a progress query answers "no such job" exactly when the job_id had no
\* record, and answers with the record's values otherwise.
C9_NotFoundOnlyForUnknown ==
  \A p \in Workers :
    (At(p, "return") /\ th[p].kind = "progress") =>
      /\ th[p].found <=> th[p].resp.code = 200
      /\ ~th[p].found <=> th[p].resp.code = 404
      /\ th[p].found => th[p].resp.status = th[p].info.status

\* C9's case: a query has answered with a record whose done and total are 0.
C9_Witness ==
  \E p \in Workers :
    /\ At(p, "return") /\ th[p].kind = "progress"
    /\ th[p].resp.code = 200
    /\ th[p].info.done = 0 /\ th[p].info.total = 0

\* C10: two jobs that run at the same time have different job_ids.
C10_UniqueJobIds ==
  \A p, q \in Workers :
    (p # q /\ ActiveJob(p) /\ ActiveJob(q)) => th[p].job_id # th[q].job_id

\* C14: a run takes the cache-hit path only for a key that has both its cache
\* file and its index row, and every hit leaves the row of the key with the
\* current time as its last access.
C14_HitOnlyWhenIndexed ==
  [][\A p \in Workers :
       /\ (At(p, "check") /\ th'[p].pc = "touch") =>
            (th[p].key \in DOMAIN files /\ th[p].key \in DOMAIN index)
       /\ (At(p, "touch") /\ th'[p].pc = "decode") =>
            /\ th[p].key \in DOMAIN index'
            /\ index'[th[p].key].mtime = clock]_vars

\* Thread p has taken a step from the head of the pipeline's loop.
LoopStep(p) == At(p, "loop") /\ th'[p] # th[p]

\* C15: in one pipeline run with a job_id over n segments, done advances by
\* exactly one per segment, the record written before the k-th segment holds
\* done = k-1 and total = n, and the record written after the loop holds
\* done = n, total = n and "Complete".
C15_DoneAdvancesByOne ==
  [][\A p \in Workers :
       /\ (InPipeline(p) /\ InPipeline(p)') =>
            /\ th'[p].done - th[p].done \in {0, 1}
            /\ th'[p].done - th[p].done = th'[p].sidx - th[p].sidx
            /\ th'[p].done = th'[p].sidx - 1
       /\ (LoopStep(p) /\ HasJob(p)) =>
            LET n == Len(th[p].segs)
                k == th[p].sidx
                rec == progress_state'[th[p].job_id]
            IN IF k <= n
               THEN rec.done = k - 1 /\ rec.total = n
               ELSE rec = Rec(n, n, Status("Complete", 0, 0))]_vars

\* The text segment of thread p is being looked up, synthesized or cached.
AtText(p) ==
  th[p].pc \in {"check", "touch", "save", "saving", "add", "insert", "decode"}

\* C16: every text segment is looked up, synthesized and cached under the voice
\* of the last voice segment before it in its own block, or under the block's
\* default voice when there is none: each block starts from its own default
\* voice, whatever voice the block before ended with.
C16_VoiceOfOwnBlock ==
  \A p \in Workers :
    LET r == th[p]
        dv == r.blocks[r.i + 1].voice
    IN /\ InPipeline(p) => r.current_voice = VoiceAt(r.segs, r.sidx, dv)
       /\ AtText(p) =>
            r.key = cache_key(Strip(r.segs[r.sidx].content),
                              VoiceAt(r.segs, r.sidx, dv))

\* C16's case: the second block of a job, whose first block switched to v2, has
\* its text looked up under its own default voice v1.
C16_Witness ==
  \E p \in Workers :
    /\ AtText(p) /\ th[p].kind = "all" /\ th[p].i = 1
    /\ \E n \in 1..Len(parse_tags_into_segments(th[p].blocks[1].text, "v1")) :
         parse_tags_into_segments(th[p].blocks[1].text, "v1")[n] = VoiceSeg("v2")
    /\ th[p].blocks[2].voice = "v1"
    /\ th[p].key[1] = "v1"

\* C18: every progress record has 0 <= done <= total, and every percentage a
\* progress query answers lies between 0 and 100.
C18_DoneWithinTotal ==
  /\ \A j \in DOMAIN progress_state :
       0 <= progress_state[j].done /\ progress_state[j].done <= progress_state[j].total
  /\ \A p \in Workers :
       (At(p, "return") /\ th[p].kind = "progress" /\ th[p].resp.code = 200) =>
         (0 <= th[p].resp.progress /\ th[p].resp.progress <= 1000)

\* C13: a /tts request with blank text and a /tts-all request without blocks are
\* answered with the error at once: the step that takes the request and the
\* step that sends the answer leave the progress records, the cache index, the
\* cache files, the provider's deliveries, the temp files and the scheduled
\* deletes as they are, and no pipeline run or eviction pass lies between them;
\* every request that is not rejected has text, or blocks.
C13_EmptyInputRejected ==
  [][\A p \in Workers :
       /\ (At(p, "idle") /\ th'[p].kind \in {"single", "all"}) =>
            IF th'[p].resp.code = 400
            THEN /\ th'[p].pc = "return"
                 /\ UNCHANGED <<progress_state, index, files, synthesized,
                                tmpfiles, timers>>
            ELSE IF th'[p].kind = "single"
                 THEN Strip(th'[p].blocks[1].text) # <<>>
                 ELSE th'[p].blocks # <<>>
       /\ (th[p].resp.code = 400 /\ th'[p] # th[p]) =>
            /\ th'[p] = Idle
            /\ UNCHANGED <<progress_state, index, files, synthesized,
                           tmpfiles, timers>>]_vars

\* C13's case: a request is rejected while the cache, the progress records and
\* the scheduled deletes of an earlier job are there to be left alone.
C13_Witness ==
  \E p \in Workers :
    /\ At(p, "return") /\ th[p].resp.code = 400
    /\ th[p].kind \in {"single", "all"}
    /\ files # <<>> /\ index # <<>> /\ progress_state # <<>>
    /\ tmpfiles # {} /\ DOMAIN timers # {}

\* The eviction pass of thread p has handled its last row, and no other request
\* was running or accepted between its SELECT and now.
PassDone(p) ==
  /\ At(p, "return") /\ th[p].kind \in {"single", "all"} /\ th[p].resp.code = 200
  /\ th[p].solo = nreq
  /\ \A q \in Workers \ {p} : At(q, "idle")

\* The rows the pass of thread p read that are not in the index any more.
Removed(p) ==
  {th[p].rows[n].hash : n \in 1..Len(th[p].rows)} \ DOMAIN index

\* The first two parts of C17: the entries left are young and within the cap.
LeftWithinLimits(p) ==
  /\ \A k \in DOMAIN index : th[p].now - index[k].mtime <= MaxAge
  /\ IndexedTotal <= MaxTotal

\* C17: after an eviction pass that ran with no concurrent cache activity,
\* every entry still indexed is at most MaxAge old (at the pass's now), the
\* entries still indexed are at most MaxTotal together, and every removed entry
\* has lost its cache file and its row.
C17_EvictionPostcondition ==
  \A p \in Workers :
    PassDone(p) =>
      /\ LeftWithinLimits(p)
      /\ \A k \in Removed(p) : k \notin DOMAIN files

\* C17 amended: ... and every removed entry has lost its row, and its cache file
\* too unless os.remove raised for it in this pass.
C17_EvictionPostconditionAmended ==
  \A p \in Workers :
    PassDone(p) =>
      /\ LeftWithinLimits(p)
      /\ \A k \in Removed(p) : k \notin DOMAIN files \/ k \in th[p].kept

\* C17's case: a pass that ran alone has removed an entry, file and row, and
\* has left another one indexed.
C17_Witness ==
  \E p \in Workers :
    /\ PassDone(p)
    /\ \E k \in Removed(p) : k \notin DOMAIN files
    /\ index # <<>>

\* C19: the percentage and the status of an answer of /progress are those of
\* one value that the record of the job held at some moment of the query.
C19_OneRecordValue ==
  \A p \in Workers :
    (At(p, "return") /\ th[p].kind = "progress" /\ th[p].resp.code = 200) =>
      \E v \in th[p].hist :
        /\ th[p].resp.progress = Pct(v.done, v.total)
        /\ th[p].resp.status = v.status

\* C11: no scheduled delete removes a temp file while a response is being sent
\* from it, whichever deletes are scheduled on the file (the one after 600 s of
\* /tts-all, the one after 10 s of each /download of the file).
C11_NoDeleteWhileServing ==
  [][\A f \in tmpfiles :
       f \notin tmpfiles' =>
         ~ \E p \in Workers : At(p, "serving") /\ th[p].path = f]_vars

\* The segments the text stands for, read from left to right: a marker gives its
\* voice or pause segment, and each run of tokens between two markers (or the
\* ends of the text) gives one text segment of the trimmed run, when that is not
\* empty. run holds the tokens read since the last marker.
RECURSIVE BySource(_, _)
BySource(text, run) ==
  IF text = <<>> THEN TextIfAny(run)
  ELSE LET t == Head(text) IN
       IF IsVoiceMarker(t)
       THEN TextIfAny(run) \o <<VoiceSeg(MarkerVoice(t))>> \o BySource(Tail(text), <<>>)
       ELSE IF IsPauseMarker(t)
       THEN TextIfAny(run) \o <<PauseSeg(MarkerPause(t))>> \o BySource(Tail(text), <<>>)
       ELSE BySource(Tail(text), Append(run, t))

\* C12: the parser gives the segments of the text in source order: a voice
\* segment for each voice marker, followed at once by the text segment of its
\* trimmed inline text when there is some, a pause segment with its duration for
\* each pause marker, one text segment of the trimmed content for each run of
\* text that is no marker, never an empty text segment, and for a text without
\* markers the one text segment of the trimmed input (none when it is blank).
C12_ParseBySource ==
  \A p \in Workers :
    At(p, "parsed") =>
      LET text == th[p].blocks[1].text
          segs == th[p].segs
      IN /\ segs = BySource(text, <<>>)
         /\ \A n \in 1..Len(segs) :
              segs[n].type = "text" =>
                (segs[n].content # <<>> /\ Strip(segs[n].content) = segs[n].content)
         /\ (\A n \in 1..Len(text) : ~IsMarker(text[n])) => segs = TextIfAny(text)

====
